---- MODULE Spec2Model ----
(***************************************************************************)
(* Model of the Dapr workflow visualizer's extractor and graph builder    *)
(* (src/src/parsers/pythonParser.ts, baseParser.ts; the C# and            *)
(* JavaScript extractors repeat parse's scoping and buildControlFlowEdges *)
(* line for line).                                                         *)
(*                                                                         *)
(* Text is modelled at two grains.  An expression is a sequence of        *)
(* tokens: every bracket, quote, comma, colon, dot, backslash and blank   *)
(* is a token of its own and a maximal run of word characters (\w+) is    *)
(* one token, so the character loops of the source (findMatchingBracket,  *)
(* parseDictEntries, startsWith tests) read the same tokens they read as  *)
(* characters.  A source file is a sequence of statements, one per line,  *)
(* each carrying what the extractor's regular expressions capture from    *)
(* it (kind, callee name, bound variable, input expression, task list).   *)
(***************************************************************************)
EXTENDS Integers, Sequences, FiniteSets, TLC

(***************************************************************************)
(* Bounds of the model.                                                    *)
(***************************************************************************)
MaxLines == 4      \* lines of a document in the control-flow specification
MaxFlowLines == 3  \* lines of a document in the data-flow specifications
MaxText == 7       \* tokens of a text handed to the bracket scanner
MaxDict == 7       \* tokens of a keyed literal handed to the classifier

VARIABLES
    doc,                 \* the document being edited: Seq of statements
    workflowInputParam,  \* PythonWorkflowParser.workflowInputParam
    outputVariableMap,   \* PythonWorkflowParser.outputVariableMap
    parallelTaskMap,     \* PythonWorkflowParser.parallelTaskMap
    parallelGroupMap,    \* PythonWorkflowParser.parallelGroupMap
    result,              \* the ParseResult of the last parse call
    parsed,              \* the arguments of the last parse call
    first,               \* arguments and graph of the first parse call
    text,                \* text handed to the scanner / classifier
    scan                 \* outcome of the last scanner / classifier call

vars == <<doc, workflowInputParam, outputVariableMap, parallelTaskMap,
          parallelGroupMap, result, parsed, first, text, scan>>

parserVars == <<workflowInputParam, outputVariableMap, parallelTaskMap,
                parallelGroupMap, result, parsed, first>>

(***************************************************************************)
(* Tokens.                                                                 *)
(***************************************************************************)
DQ == "\""
SQ == "'"
BS == "\\"
Blank == " "
Openers == {"{", "[", "("}
Closers == {"}", "]", ")"}
Specials == Openers \cup Closers \cup {DQ, SQ, BS, Blank, ",", ":", ".", "*", "=", ">"}

\* \w+ : a token that is a run of word characters
IsWord(t) == t \notin Specials

\* 0-based character access, as in the source; "" stands for undefined
At(s, i) == IF i >= 0 /\ i < Len(s) THEN s[i + 1] ELSE ""

\* String.prototype.substring(i, j) on a token sequence
Substring(s, i, j) ==
    LET a == IF i < 0 THEN 0 ELSE IF i > Len(s) THEN Len(s) ELSE i
        b == IF j < 0 THEN 0 ELSE IF j > Len(s) THEN Len(s) ELSE j
    IN  IF a <= b THEN SubSeq(s, a + 1, b) ELSE SubSeq(s, b + 1, a)

\* String.prototype.indexOf(c) ; -1 when absent
RECURSIVE IndexFrom(_, _, _)
IndexFrom(s, c, i) ==
    IF i >= Len(s) THEN -1
    ELSE IF At(s, i) = c THEN i
    ELSE IndexFrom(s, c, i + 1)

IndexOf(s, c) == IndexFrom(s, c, 0)

\* String.prototype.trim()
RECURSIVE TrimLeft(_)
TrimLeft(s) == IF s # <<>> /\ Head(s) = Blank THEN TrimLeft(Tail(s)) ELSE s

RECURSIVE TrimRight(_)
TrimRight(s) ==
    IF s # <<>> /\ s[Len(s)] = Blank THEN TrimRight(SubSeq(s, 1, Len(s) - 1)) ELSE s

Trim(s) == TrimRight(TrimLeft(s))

\* the text of a token sequence, as one string
RECURSIVE Concat(_)
Concat(s) == IF s = <<>> THEN "" ELSE Head(s) \o Concat(Tail(s))

(***************************************************************************)
(* Op at the value of v: a local constant of the source, assigned once and *)
(* read many times.                                                        *)
(***************************************************************************)
With(v, Op(_)) == CHOOSE y \in {Op(w) : w \in {v}} : TRUE

(***************************************************************************)
(* Map<string, string>: the entries <<key, value>> in insertion order.      *)
(***************************************************************************)
EmptyMap == <<>>

MapKeys(m) == {m[p][1] : p \in 1..Len(m)}

\* Map.prototype.set: a new key goes last, a known key keeps its place
MapSet(m, k, v) ==
    IF k \in MapKeys(m)
    THEN [p \in 1..Len(m) |-> IF m[p][1] = k THEN <<k, v>> ELSE m[p]]
    ELSE Append(m, <<k, v>>)

\* Map.prototype.get; "" stands for undefined
MapGet(m, k) ==
    IF k \in MapKeys(m)
    THEN m[CHOOSE p \in 1..Len(m) : m[p][1] = k][2]
    ELSE ""

(***************************************************************************)
(* findMatchingBracket: the loop, with i, depth and inString as in the     *)
(* source (inString null is <<>>, a quote is <<q>>, a triple quote is      *)
(* <<q, q, q>>).  Returns i - 1.                                           *)
(***************************************************************************)
CloseCharOf(openChar) ==
    IF openChar = "{" THEN "}" ELSE IF openChar = "[" THEN "]" ELSE ")"

TripleQuotes == {<<DQ, DQ, DQ>>, <<SQ, SQ, SQ>>}

RECURSIVE BracketLoop(_, _, _, _, _)
BracketLoop(sourceCode, openChar, i, depth, inString) ==
    IF ~(i < Len(sourceCode) /\ depth > 0) THEN i - 1
    ELSE
      LET char == At(sourceCode, i)
          prevChar == At(sourceCode, i - 1)
          three == Substring(sourceCode, i, i + 3)
          counted ==
              IF inString # <<>> THEN depth
              ELSE IF char = openChar THEN depth + 1
              ELSE IF char = CloseCharOf(openChar) THEN depth - 1
              ELSE depth
      IN  IF (char = DQ \/ char = SQ) /\ prevChar # BS
          THEN IF inString = <<>>
               THEN IF three \in TripleQuotes
                    THEN BracketLoop(sourceCode, openChar, i + 3, depth, three)
                    ELSE BracketLoop(sourceCode, openChar, i + 1, depth, <<char>>)
               ELSE IF inString = <<char>> \/ (Len(inString) = 3 /\ three = inString)
                    THEN BracketLoop(sourceCode, openChar,
                                     IF Len(inString) = 3 THEN i + 3 ELSE i + 1,
                                     depth, <<>>)
                    ELSE BracketLoop(sourceCode, openChar, i + 1, depth, inString)
          ELSE BracketLoop(sourceCode, openChar, i + 1, counted, inString)

FindMatchingBracket(sourceCode, openIndex) ==
    BracketLoop(sourceCode, At(sourceCode, openIndex), openIndex + 1, 1, <<>>)

(***************************************************************************)
(* classifyExpression, parseKeyValue, parseDictEntries, analyzeDataSource. *)
(* A DataSource is [sourceType, sourcePath, sourceActivityId,              *)
(* targetProperty]; "" and <<>> stand for an absent id and property.       *)
(***************************************************************************)
DataSource(type, path, producer, target) ==
    [sourceType |-> type, sourcePath |-> path,
     sourceActivityId |-> producer, targetProperty |-> target]

\* expr === v || expr.startsWith(v + '.') || expr.startsWith(v + '[')
RootedAt(expr, v) ==
    \/ expr = <<v>>
    \/ Len(expr) >= 2 /\ expr[1] = v /\ expr[2] \in {".", "["}

\* the tail (\.\w+|\[['"]?\w+['"]?\])*$ of the variable-reference pattern
RECURSIVE AccessTail(_)
AccessTail(s) ==
    \/ s = <<>>
    \/ Len(s) >= 2 /\ s[1] = "." /\ IsWord(s[2]) /\ AccessTail(SubSeq(s, 3, Len(s)))
    \/ /\ Len(s) >= 3 /\ s[1] = "["
       /\ \E q1 \in {0, 1}, q2 \in {0, 1} :
            /\ Len(s) >= 3 + q1 + q2
            /\ q1 = 1 => s[2] \in {DQ, SQ}
            /\ IsWord(s[2 + q1])
            /\ q2 = 1 => s[3 + q1] \in {DQ, SQ}
            /\ s[3 + q1 + q2] = "]"
            /\ AccessTail(SubSeq(s, 4 + q1 + q2, Len(s)))

\* /^\w+(\.\w+|\[['"]?\w+['"]?\])*$/.test(expr)
LooksLikeVariable(expr) ==
    expr # <<>> /\ IsWord(expr[1]) /\ AccessTail(Tail(expr))

IsQuoted(expr) ==
    expr # <<>> /\ \E q \in {DQ, SQ} : expr[1] = q /\ expr[Len(expr)] = q

ClassifyExpression(expr, targetProperty, inputParam, ovm) ==
    IF RootedAt(expr, inputParam)
    THEN DataSource("workflow_input", expr, "", targetProperty)
    ELSE IF \E p \in 1..Len(ovm) : RootedAt(expr, ovm[p][1])
    THEN LET hit == CHOOSE p \in 1..Len(ovm) :
                       /\ RootedAt(expr, ovm[p][1])
                       /\ \A q \in 1..(p - 1) : ~RootedAt(expr, ovm[q][1])
         IN  DataSource("activity_output", expr, ovm[hit][2], targetProperty)
    ELSE IF IsQuoted(expr)
    THEN DataSource("literal", expr, "", targetProperty)
    ELSE IF LooksLikeVariable(expr)
    THEN DataSource("workflow_input", expr, "", targetProperty)
    ELSE DataSource("literal", expr, "", targetProperty)

\* an entry is [ok, key, value]; ok = FALSE is the source's null
ParseKeyValue(str) ==
    LET colonIdx == IndexOf(str, ":")
    IN  IF colonIdx = -1
        THEN [ok |-> FALSE, key |-> <<>>, value |-> <<>>]
        ELSE [ok |-> TRUE,
              key |-> SelectSeq(Trim(Substring(str, 0, colonIdx)),
                                LAMBDA t : t \notin {DQ, SQ}),
              value |-> Trim(Substring(str, colonIdx + 1, Len(str)))]

PushEntry(entries, current) ==
    LET entry == ParseKeyValue(Trim(current))
    IN  IF entry.ok THEN Append(entries, entry) ELSE entries

RECURSIVE DictLoop(_, _, _, _, _)
DictLoop(dictContent, i, depth, current, entries) ==
    IF i > Len(dictContent)
    THEN IF Trim(current) # <<>> THEN PushEntry(entries, current) ELSE entries
    ELSE
      LET char == dictContent[i]
          d1 == IF char \in Openers THEN depth + 1 ELSE depth
          d2 == IF char \in Closers THEN d1 - 1 ELSE d1
      IN  IF char = "," /\ d2 = 0
          THEN DictLoop(dictContent, i + 1, d2, <<>>, PushEntry(entries, current))
          ELSE DictLoop(dictContent, i + 1, d2, Append(current, char), entries)

ParseDictEntries(dictContent) == DictLoop(dictContent, 1, 0, <<>>, <<>>)

AnalyzeDataSource(inputExpr, inputParam, ovm) ==
    IF inputExpr = <<>> THEN <<>>
    ELSE IF Head(inputExpr) = "{" /\ inputExpr[Len(inputExpr)] = "}"
    THEN With(ParseDictEntries(Substring(inputExpr, 1, Len(inputExpr) - 1)),
           LAMBDA entries :
         With([k \in 1..Len(entries) |->
                  ClassifyExpression(entries[k].value, entries[k].key,
                                     inputParam, ovm)],
           LAMBDA sources :
             LET hasWorkflowInput ==
                     \E k \in 1..Len(sources) :
                         sources[k].sourceType = "workflow_input"
                 hasActivityOutput ==
                     \E k \in 1..Len(sources) :
                         sources[k].sourceType = "activity_output"
             IN  IF hasWorkflowInput /\ hasActivityOutput
                 THEN [k \in 1..Len(sources) |->
                          IF Len(sources) > 1 THEN sources[k]
                          ELSE [sources[k] EXCEPT !.sourceType = "constructed"]]
                 ELSE sources))
    ELSE <<ClassifyExpression(inputExpr, <<>>, inputParam, ovm)>>

(***************************************************************************)
(* Statements: what one source line holds, as the patterns capture it.     *)
(*   wf     @workflow / def name(ctx, out: T)   (out "" : no typed param)  *)
(*   decl   @activity                                                      *)
(*   task   out = ctx.call_activity(name, input=in)                        *)
(*   act    [out =] yield ctx.call_activity(name, input=in)                *)
(*   ract   [out =] yield ctx.call_activity(name,                          *)
(*                      retry_policy=RetryPolicy(n), input=in)             *)
(*   retry  name = RetryPolicy(n)                                          *)
(*   child  [out =] yield ctx.call_child_workflow(name, input=in)          *)
(*   timer  [out =] yield ctx.create_timer(name)                           *)
(*   event  [out =] yield ctx.wait_for_external_event("name")              *)
(*   join   [outs =] yield when_all([tasks])                               *)
(*   if     if in:                                                         *)
(* in = <<>> : the call has no input= argument.                            *)
(***************************************************************************)
Stmt(k, name, out, in, tasks, outs) ==
    [k |-> k, name |-> name, out |-> out, in |-> in, tasks |-> tasks, outs |-> outs]

\* the pattern of the recognizer loop `kind' matches the line of stmt
Matched(kind, stmt) ==
    \/ stmt.k = kind
    \/ stmt.k = "ract" /\ kind \in {"act", "retry"}

FileName == "file"   \* the file-name-derived default workflow name

(***************************************************************************)
(* findAllWorkflows: one [name, startLine, endLine, endIndex] per          *)
(* @workflow line.  The text of a workflow (startIndex..endIndex) runs to  *)
(* the line before the next workflow, for the last one to the line before  *)
(* the first @activity line after it, else to the end of the file;         *)
(* endIndex is the last line of that text.  endLine is the line number the *)
(* source computes, one less than endIndex in the @activity case.          *)
(***************************************************************************)
WorkflowLines(sourceCode) == {i \in 1..Len(sourceCode) : sourceCode[i].k = "wf"}

\* the matches in the order the pattern finds them
SortedLines(S) ==
    [p \in 1..Cardinality(S) |->
        CHOOSE i \in S : Cardinality({j \in S : j <= i}) = p]

FindAllWorkflows(sourceCode) ==
    With(SortedLines(WorkflowLines(sourceCode)), LAMBDA starts :
        LET Decls(p) == {i \in (starts[p] + 1)..Len(sourceCode) :
                            sourceCode[i].k = "decl"}
            EndIndex(p) ==
                IF p < Len(starts) THEN starts[p + 1] - 1
                ELSE IF Decls(p) # {}
                THEN (CHOOSE i \in Decls(p) : \A j \in Decls(p) : i <= j) - 1
                ELSE Len(sourceCode)
            EndLine(p) ==
                IF p = Len(starts) /\ Decls(p) # {}
                THEN EndIndex(p) - 1 ELSE EndIndex(p)
        IN  [p \in 1..Len(starts) |->
                [name |-> sourceCode[starts[p]].name,
                 startLine |-> starts[p],
                 endLine |-> EndLine(p),
                 endIndex |-> EndIndex(p)]])

\* extractWorkflowName: the first decorated definition, else the file name
ExtractWorkflowName(sourceCode) ==
    LET wfs == WorkflowLines(sourceCode)
    IN  IF wfs # {}
        THEN sourceCode[CHOOSE i \in wfs : \A j \in wfs : i <= j].name
        ELSE FileName

(***************************************************************************)
(* The scoping branch of parse: [code, lineOffset, workflowName].          *)
(* targetWorkflowName "" is an absent (falsy) target.                      *)
(***************************************************************************)
ScopeTo(sourceCode, w) ==
    [code |-> SubSeq(sourceCode, w.startLine, w.endIndex),
     lineOffset |-> w.startLine - 1,
     workflowName |-> w.name]

WholeFile(sourceCode) ==
    [code |-> sourceCode, lineOffset |-> 0,
     workflowName |-> ExtractWorkflowName(sourceCode)]

SelectScope(sourceCode, targetWorkflowName) ==
    With(FindAllWorkflows(sourceCode), LAMBDA allWorkflows :
        LET hits == {p \in 1..Len(allWorkflows) :
                        allWorkflows[p].name = targetWorkflowName}
        IN  IF targetWorkflowName # "" /\ Len(allWorkflows) > 0
            THEN IF hits # {}
                 THEN ScopeTo(sourceCode,
                              allWorkflows[CHOOSE p \in hits : \A q \in hits : p <= q])
                 ELSE WholeFile(sourceCode)
            ELSE IF Len(allWorkflows) > 0
            THEN ScopeTo(sourceCode, allWorkflows[1])
            ELSE WholeFile(sourceCode))

\* extractWorkflowInputInfo: the first signature with a typed second
\* parameter in the scoped code sets the field, otherwise it is left alone
ExtractWorkflowInputInfo(scopedSourceCode, current) ==
    LET sigs == {i \in 1..Len(scopedSourceCode) :
                    scopedSourceCode[i].k = "wf" /\ scopedSourceCode[i].out # ""}
    IN  IF sigs # {}
        THEN scopedSourceCode[CHOOSE i \in sigs : \A j \in sigs : i <= j].out
        ELSE current

(***************************************************************************)
(* extractInputExpression: the first ", input=" at or after the call's     *)
(* opening parenthesis, searched in the rest of the scoped code; then a    *)
(* bracketed value up to its matching closer, any other value up to the    *)
(* next ")".  The text after "input=" is the value followed by the ")"     *)
(* that closes the call.                                                   *)
(***************************************************************************)
HasInputMarker(stmt) ==
    stmt.k \in {"task", "act", "ract", "sact", "child"} /\ stmt.in # <<>>

\* the value that starts at inputStart; <<>> is undefined
InputFrom(sourceCode, inputStart) ==
    IF At(sourceCode, inputStart) \in Openers
    THEN Trim(Substring(sourceCode, inputStart,
                        FindMatchingBracket(sourceCode, inputStart) + 1))
    ELSE With(IndexFrom(sourceCode, ")", inputStart), LAMBDA endIndex :
             IF endIndex = -1 THEN <<>>
             ELSE Trim(Substring(sourceCode, inputStart, endIndex)))

ExtractInputExpression(sourceCode, i) ==
    LET marked == {j \in i..Len(sourceCode) : HasInputMarker(sourceCode[j])}
    IN  IF marked = {} THEN <<>>
        ELSE LET j == CHOOSE x \in marked : \A y \in marked : x <= y
             IN  InputFrom(sourceCode[j].in \o <<")">>, 0)

\* the input group ([^)\n]+) of the child-workflow pattern, trimmed
ChildInput(stmt) ==
    LET close == IndexOf(stmt.in, ")")
    IN  Trim(IF close = -1 THEN stmt.in ELSE Substring(stmt.in, 0, close))

(***************************************************************************)
(* Nodes (createNode plus the fields parse sets on them).  lineNumber 0 is *)
(* a node without metadata (start, end); output "" and input <<>> are      *)
(* undefined.                                                              *)
(***************************************************************************)
Node(id, type, name, lineNumber, input, output, dataSources, isParallelTask) ==
    [id |-> id, type |-> type, name |-> name, lineNumber |-> lineNumber,
     input |-> input, output |-> output, dataSources |-> dataSources,
     isParallelTask |-> isParallelTask]

NodeIdOfLoop(prefix, index) == "node-" \o ToString(index)

NodeId(prefix, index) == prefix \o "-" \o ToString(index)

\* if (outputVar) { this.outputVariableMap.set(outputVar, nodeId); }
Register(ovm, outputVar, nodeId) ==
    IF outputVar # "" THEN MapSet(ovm, outputVar, nodeId) ELSE ovm

(***************************************************************************)
(* parseActivities: three loops over the scoped code sharing one index --  *)
(* unawaited task assignments, awaited calls, awaited calls with a quoted  *)
(* name.  acc is [nodes, index, ovm, ptm].                                 *)
(***************************************************************************)
TaskNode(sourceCode, lineOffset, inputParam, i, acc) ==
    With(ExtractInputExpression(sourceCode, i), LAMBDA inputExpr :
        LET nodeId == NodeId("activity", acc.index)
            dataSources == AnalyzeDataSource(inputExpr, inputParam, acc.ovm)
        IN  [acc EXCEPT !.index = @ + 1,
                        !.ptm = MapSet(@, sourceCode[i].out, nodeId),
                        !.nodes = Append(@, Node(nodeId, "activity", sourceCode[i].name,
                                                 i + lineOffset, inputExpr,
                                                 sourceCode[i].out, dataSources, TRUE))])

AwaitedNode(sourceCode, lineOffset, inputParam, i, acc, skipCaptured) ==
    With(ExtractInputExpression(sourceCode, i), LAMBDA inputExpr :
    With(Register(acc.ovm, sourceCode[i].out, NodeId("activity", acc.index)),
      LAMBDA ovm :
        LET lineNum == i + lineOffset
            existingNode == \E p \in 1..Len(acc.nodes) :
                               /\ acc.nodes[p].name = sourceCode[i].name
                               /\ acc.nodes[p].lineNumber = lineNum
            nodeId == NodeId("activity", acc.index)
            dataSources == AnalyzeDataSource(inputExpr, inputParam, ovm)
        IN  IF skipCaptured /\ existingNode THEN acc
            ELSE [acc EXCEPT !.index = @ + 1,
                             !.ovm = ovm,
                             !.nodes = Append(@, Node(nodeId, "activity",
                                                      sourceCode[i].name, lineNum,
                                                      inputExpr, sourceCode[i].out,
                                                      dataSources, FALSE))]))

RECURSIVE ActivityLoop(_, _, _, _, _, _)
ActivityLoop(kind, sourceCode, lineOffset, inputParam, i, acc) ==
    IF i > Len(sourceCode) THEN acc
    ELSE IF ~Matched(kind, sourceCode[i])
    THEN ActivityLoop(kind, sourceCode, lineOffset, inputParam, i + 1, acc)
    ELSE With(IF kind = "task"
              THEN TaskNode(sourceCode, lineOffset, inputParam, i, acc)
              ELSE AwaitedNode(sourceCode, lineOffset, inputParam, i, acc, kind = "act"),
           LAMBDA next :
              ActivityLoop(kind, sourceCode, lineOffset, inputParam, i + 1, next))

ParseActivities(sourceCode, lineOffset, inputParam, ovm, ptm) ==
    With([nodes |-> <<>>, index |-> 0, ovm |-> ovm, ptm |-> ptm], LAMBDA acc0 :
    With(ActivityLoop("task", sourceCode, lineOffset, inputParam, 1, acc0),
      LAMBDA acc1 :
    With(ActivityLoop("act", sourceCode, lineOffset, inputParam, 1, acc1),
      LAMBDA acc2 :
        ActivityLoop("sact", sourceCode, lineOffset, inputParam, 1, acc2))))

(***************************************************************************)
(* parseChildWorkflows, parseTimers, parseExternalEvents,                  *)
(* parseRetryPolicies: one loop each, acc is [nodes, index, ovm].          *)
(***************************************************************************)
ChildNode(stmt, lineNum, inputParam, acc) ==
    With(ChildInput(stmt), LAMBDA inputExpr :
    With(Register(acc.ovm, stmt.out, NodeId("child", acc.index)), LAMBDA ovm :
        LET nodeId == NodeId("child", acc.index)
            dataSources == AnalyzeDataSource(inputExpr, inputParam, ovm)
        IN  [acc EXCEPT !.index = @ + 1, !.ovm = ovm,
                        !.nodes = Append(@, Node(nodeId, "subOrchestration", stmt.name,
                                                 lineNum, inputExpr, stmt.out,
                                                 dataSources, FALSE))]))

TimerNode(stmt, lineNum, inputParam, acc) ==
    LET nodeId == NodeId("timer", acc.index)
    IN  [acc EXCEPT !.index = @ + 1,
                    !.ovm = Register(@, stmt.out, nodeId),
                    !.nodes = Append(@, Node(nodeId, "timer", "Timer", lineNum,
                                             <<>>, stmt.out, <<>>, FALSE))]

EventNode(stmt, lineNum, inputParam, acc) ==
    LET nodeId == NodeId("event", acc.index)
    IN  [acc EXCEPT !.index = @ + 1,
                    !.ovm = Register(@, stmt.out, nodeId),
                    !.nodes = Append(@, Node(nodeId, "event", stmt.name, lineNum,
                                             <<>>, stmt.out,
                                             <<DataSource("event_data", <<stmt.name>>,
                                                          "", <<>>)>>,
                                             FALSE))]

RetryNode(stmt, lineNum, inputParam, acc) ==
    [acc EXCEPT !.index = @ + 1,
                !.nodes = Append(@, Node(NodeId("retry", acc.index), "retry",
                                         "Retry Policy", lineNum, <<>>, "", <<>>,
                                         FALSE))]

RECURSIVE StepLoop(_, _, _, _, _, _)
StepLoop(kind, sourceCode, lineOffset, inputParam, i, acc) ==
    IF i > Len(sourceCode) THEN acc
    ELSE IF ~Matched(kind, sourceCode[i])
    THEN StepLoop(kind, sourceCode, lineOffset, inputParam, i + 1, acc)
    ELSE With(CASE kind = "child" ->
                       ChildNode(sourceCode[i], i + lineOffset, inputParam, acc)
                [] kind = "timer" ->
                       TimerNode(sourceCode[i], i + lineOffset, inputParam, acc)
                [] kind = "event" ->
                       EventNode(sourceCode[i], i + lineOffset, inputParam, acc)
                [] OTHER ->
                       RetryNode(sourceCode[i], i + lineOffset, inputParam, acc),
           LAMBDA next :
              StepLoop(kind, sourceCode, lineOffset, inputParam, i + 1, next))

ParseSteps(kind, sourceCode, lineOffset, inputParam, ovm) ==
    StepLoop(kind, sourceCode, lineOffset, inputParam, 1,
             [nodes |-> <<>>, index |-> 0, ovm |-> ovm])

ParseChildWorkflows(sourceCode, lineOffset, inputParam, ovm) ==
    ParseSteps("child", sourceCode, lineOffset, inputParam, ovm)

ParseTimersUnemitted(sourceCode, lineOffset, inputParam, ovm) ==
    [ParseSteps("timer", sourceCode, lineOffset, inputParam, ovm)
        EXCEPT !.nodes = <<>>]

ParseTimers(sourceCode, lineOffset, inputParam, ovm) ==
    ParseSteps("timer", sourceCode, lineOffset, inputParam, ovm)

ParseExternalEvents(sourceCode, lineOffset, inputParam, ovm) ==
    ParseSteps("event", sourceCode, lineOffset, inputParam, ovm)

ParseRetryPolicies(sourceCode, lineOffset, inputParam, ovm) ==
    ParseSteps("retry", sourceCode, lineOffset, inputParam, ovm)

(***************************************************************************)
(* analyzeConditionSources and parseDecisions.  A reference is the name    *)
(* followed by "." or "[" and a run of [\w"'\[\].], or (for a produced     *)
(* variable) the name not followed by a word character.  The patterns are  *)
(* not anchored on the left, so the name matches at the end of any word.   *)
(***************************************************************************)
PathToken(t) == IsWord(t) \/ t \in {DQ, SQ, "[", "]", "."}

\* the characters of word end with the characters of name
EndsWith(word, name) ==
    /\ Len(word) >= Len(name)
    /\ SubSeq(word, Len(word) - Len(name) + 1, Len(word)) = name

RECURSIVE RunEnd(_, _)
RunEnd(condition, p) ==
    IF p <= Len(condition) /\ PathToken(condition[p])
    THEN RunEnd(condition, p + 1) ELSE p - 1

RECURSIVE References(_, _, _, _, _)
References(condition, name, bare, p, found) ==
    IF p > Len(condition) THEN found
    ELSE IF ~EndsWith(condition[p], name)
    THEN References(condition, name, bare, p + 1, found)
    ELSE IF /\ p + 2 <= Len(condition)
            /\ condition[p + 1] \in {".", "["}
            /\ PathToken(condition[p + 2])
    THEN LET e == RunEnd(condition, p + 2)
         IN  References(condition, name, bare, e + 1,
                        Append(found, <<name>> \o SubSeq(condition, p + 1, e)))
    ELSE References(condition, name, bare, p + 1,
                    IF bare THEN Append(found, <<name>>) ELSE found)

RECURSIVE OutputReferences(_, _, _, _)
OutputReferences(condition, ovm, p, sources) ==
    IF p > Len(ovm) THEN sources
    ELSE With(References(condition, ovm[p][1], TRUE, 1, <<>>), LAMBDA paths :
         With(sources \o [k \in 1..Len(paths) |->
                             DataSource("activity_output", paths[k],
                                        MapGet(ovm, ovm[p][1]), <<>>)],
           LAMBDA next : OutputReferences(condition, ovm, p + 1, next)))

AnalyzeConditionSources(condition, inputParam, ovm) ==
    With(References(condition, inputParam, FALSE, 1, <<>>), LAMBDA paths :
        OutputReferences(condition, ovm, 1,
            [k \in 1..Len(paths) |->
                DataSource("workflow_input", paths[k], "", <<>>)]))

\* an if line whose next line holds an awaited ctx. call
GuardsStep(sourceCode, i) ==
    /\ sourceCode[i].k = "if"
    /\ i + 1 <= Len(sourceCode)
    /\ sourceCode[i + 1].k \in {"act", "ract", "sact", "child", "timer", "event"}

RECURSIVE DecisionLoop(_, _, _, _, _, _)
DecisionLoop(sourceCode, lineOffset, inputParam, ovm, i, nodes) ==
    IF i > Len(sourceCode) THEN nodes
    ELSE IF ~GuardsStep(sourceCode, i)
    THEN DecisionLoop(sourceCode, lineOffset, inputParam, ovm, i + 1, nodes)
    ELSE With(Append(nodes,
                     Node(NodeId("decision", Len(nodes)), "decision",
                          "Decision " \o ToString(Len(nodes) + 1), i + lineOffset,
                          <<>>, "",
                          AnalyzeConditionSources(Trim(sourceCode[i].in),
                                                  inputParam, ovm),
                          FALSE)),
           LAMBDA next :
              DecisionLoop(sourceCode, lineOffset, inputParam, ovm, i + 1, next))

ParseDecisions(sourceCode, lineOffset, inputParam, ovm) ==
    DecisionLoop(sourceCode, lineOffset, inputParam, ovm, 1, <<>>)

(***************************************************************************)
(* parseParallelBlocks: every when_all line gives a join node, registers   *)
(* its outputs as produced by the join, and maps each listed task variable *)
(* known to parallelTaskMap to the join.  acc is [nodes, ovm, pgm].        *)
(***************************************************************************)
RECURSIVE RegisterAll(_, _, _)
RegisterAll(ovm, outputs, nodeId) ==
    IF outputs = <<>> THEN ovm
    ELSE With(Register(ovm, Head(outputs), nodeId), LAMBDA next :
              RegisterAll(next, Tail(outputs), nodeId))

RECURSIVE MapTasks(_, _, _, _)
MapTasks(pgm, ptm, taskVars, nodeId) ==
    IF taskVars = <<>> THEN pgm
    ELSE With(MapGet(ptm, Head(taskVars)), LAMBDA activityNodeId :
         With(IF activityNodeId # "" THEN MapSet(pgm, activityNodeId, nodeId)
              ELSE pgm,
           LAMBDA next : MapTasks(next, ptm, Tail(taskVars), nodeId)))

JoinNode(stmt, lineNum, ptm, acc) ==
    LET nodeId == NodeId("parallel-join", Len(acc.nodes))
    IN  [nodes |-> Append(acc.nodes,
                          Node(nodeId, "parallel", "Join", lineNum, <<>>, "", <<>>, FALSE)),
         ovm |-> RegisterAll(acc.ovm, stmt.outs, nodeId),
         pgm |-> MapTasks(acc.pgm, ptm, stmt.tasks, nodeId)]

RECURSIVE JoinLoop(_, _, _, _, _)
JoinLoop(sourceCode, lineOffset, ptm, i, acc) ==
    IF i > Len(sourceCode) THEN acc
    ELSE With(IF sourceCode[i].k = "join"
              THEN JoinNode(sourceCode[i], i + lineOffset, ptm, acc)
              ELSE acc,
           LAMBDA next : JoinLoop(sourceCode, lineOffset, ptm, i + 1, next))

ParseParallelBlocks(sourceCode, lineOffset, ovm, ptm, pgm) ==
    JoinLoop(sourceCode, lineOffset, ptm, 1,
             [nodes |-> <<>>, ovm |-> ovm, pgm |-> pgm])

(***************************************************************************)
(* addStartEndNodes and buildControlFlowEdges.  An edge is                 *)
(* [id, source, target, type, dataFlow, label], label "" being an edge     *)
(* without label.  The walk state w is [edges, last, processed], last ""   *)
(* being a null lastSequentialNode.                                        *)
(***************************************************************************)
StartNode == Node("start", "start", "Start", 0, <<>>, "", <<>>, FALSE)
EndNode == Node("end", "end", "End", 0, <<>>, "", <<>>, FALSE)

AddStartEndNodes(nodes) == <<StartNode>> \o nodes \o <<EndNode>>

Edge(id, source, target, type, dataFlow, label) ==
    [id |-> id, source |-> source, target |-> target, type |-> type,
     dataFlow |-> dataFlow, label |-> label]

\* the edge literals of buildControlFlowEdges: id, source, target, type
ControlEdge(source, target, type) ==
    Edge(source \o "-" \o target, source, target, type, <<>>, "")

\* [...nodes].sort((a, b) => lineA - lineB): stable, a missing line is 0
InsertByLine(sorted, node) ==
    LET k == Cardinality({p \in 1..Len(sorted) :
                             sorted[p].lineNumber <= node.lineNumber})
    IN  SubSeq(sorted, 1, k) \o <<node>> \o SubSeq(sorted, k + 1, Len(sorted))

RECURSIVE SortByLine(_)
SortByLine(nodes) ==
    IF nodes = <<>> THEN <<>>
    ELSE With(SortByLine(SubSeq(nodes, 1, Len(nodes) - 1)), LAMBDA sorted :
              InsertByLine(sorted, nodes[Len(nodes)]))

ParallelTaskNodeIds(sortedNodes) ==
    {sortedNodes[p].id : p \in {q \in 1..Len(sortedNodes) : sortedNodes[q].isParallelTask}}

JoinNodeIds(sortedNodes) ==
    {sortedNodes[p].id : p \in {q \in 1..Len(sortedNodes) : sortedNodes[q].type = "parallel"}}

\* the loop's "continue" for the end node
SkippedInLoopNever(node) == FALSE
SkippedInLoop(node) == node.type = "end"

\* an ordinary node, or a task without a join: edge from the cursor, advance
SequentialStepNoAdvance(w, node) ==
    [w EXCEPT !.edges = IF w.last # "" /\ w.last # node.id
                        THEN Append(@, ControlEdge(w.last, node.id, "default"))
                        ELSE @]
SequentialStep(w, node) ==
    [w EXCEPT !.edges = IF w.last # "" /\ w.last # node.id
                        THEN Append(@, ControlEdge(w.last, node.id, "default"))
                        ELSE @,
              !.last = node.id]

\* a parallel task without a join in parallelGroupMap: "treat as regular
\* sequential node"
UngroupedTaskFannedOut(w, node) ==
    [w EXCEPT !.edges = IF w.last # "" /\ w.last # node.id
                        THEN Append(@, ControlEdge(w.last, node.id, "parallel"))
                        ELSE @,
              !.last = node.id]
UngroupedTask(w, node) == SequentialStep(w, node)

\* every node mapped to the join, in sorted order
ParallelGroup(sortedNodes, pgm, joinNodeId) ==
    SelectSeq(sortedNodes, LAMBDA n : MapGet(pgm, n.id) = joinNodeId)

FanOut(last, parallelGroup) ==
    IF last = "" THEN <<>>
    ELSE [k \in 1..Len(parallelGroup) |->
             ControlEdge(last, parallelGroup[k].id, "parallel")]

FanIn(parallelGroup, joinNodeId) ==
    [k \in 1..Len(parallelGroup) |->
        ControlEdge(parallelGroup[k].id, joinNodeId, "parallel")]

VisitGroup(sortedNodes, pgm, joinNodeId, w) ==
    With(ParallelGroup(sortedNodes, pgm, joinNodeId), LAMBDA parallelGroup :
        LET joinFound == \E p \in 1..Len(sortedNodes) : sortedNodes[p].id = joinNodeId
        IN  [edges |-> w.edges \o FanOut(w.last, parallelGroup)
                               \o (IF joinFound THEN FanIn(parallelGroup, joinNodeId)
                                   ELSE <<>>),
             last |-> IF joinFound THEN joinNodeId ELSE w.last,
             processed |-> w.processed \cup {joinNodeId}])

VisitNode(sortedNodes, pgm, node, w) ==
    IF node.type = "start" THEN [w EXCEPT !.last = node.id]
    ELSE IF SkippedInLoop(node) THEN w
    ELSE IF node.id \in ParallelTaskNodeIds(sortedNodes)
    THEN With(MapGet(pgm, node.id), LAMBDA joinNodeId :
             IF joinNodeId = "" THEN UngroupedTask(w, node)
             ELSE IF joinNodeId \in w.processed THEN w
             ELSE VisitGroup(sortedNodes, pgm, joinNodeId, w))
    ELSE IF node.id \in JoinNodeIds(sortedNodes)
    THEN [w EXCEPT !.last = node.id]
    ELSE SequentialStep(w, node)

RECURSIVE WalkNodes(_, _, _, _)
WalkNodes(sortedNodes, pgm, i, w) ==
    IF i > Len(sortedNodes) THEN w
    ELSE With(VisitNode(sortedNodes, pgm, sortedNodes[i], w), LAMBDA next :
              WalkNodes(sortedNodes, pgm, i + 1, next))

\* the edge from the final cursor to the end node
ConnectToEndUnlessStart(sortedNodes, w) ==
    IF /\ w.last # "" /\ w.last # "start"
       /\ \E p \in 1..Len(sortedNodes) : sortedNodes[p].type = "end"
       /\ w.last # "end"
    THEN Append(w.edges, ControlEdge(w.last, "end", "default"))
    ELSE w.edges
ConnectToEnd(sortedNodes, w) ==
    IF /\ w.last # ""
       /\ \E p \in 1..Len(sortedNodes) : sortedNodes[p].type = "end"
       /\ w.last # "end"
    THEN Append(w.edges, ControlEdge(w.last, "end", "default"))
    ELSE w.edges

BuildControlFlowEdges(nodes, pgm) ==
    With(SortByLine(nodes), LAMBDA sortedNodes :
    With(WalkNodes(sortedNodes, pgm, 1,
                   [edges |-> <<>>, last |-> "", processed |-> {}]),
      LAMBDA w : ConnectToEnd(sortedNodes, w)))

(***************************************************************************)
(* buildEdgesWithDataFlow: the control edges, then one data edge per       *)
(* workflow_input, activity_output (with a producer) and event_data source *)
(* of every node, in node-list order.                                      *)
(***************************************************************************)
\* getShortPath: the part after the last ".", else the word of a trailing
\* [word], else the path, cut to 12 characters and "..." when over 15
LastDot(path) ==
    LET dots == {p \in 1..Len(path) : path[p] = "."}
    IN  IF dots = {} THEN 0 ELSE CHOOSE p \in dots : \A q \in dots : q <= p

TrailingIndex(path) ==
    LET n == Len(path)
        q2 == IF n >= 2 /\ path[n - 1] \in {DQ, SQ} THEN 1 ELSE 0
        w == n - 1 - q2
        q1 == IF w >= 2 /\ path[w - 1] \in {DQ, SQ} THEN 1 ELSE 0
    IN  IF /\ n >= 3 /\ path[n] = "]" /\ w >= 2 /\ IsWord(path[w])
           /\ \/ path[w - 1] = "["
              \/ q1 = 1 /\ w >= 3 /\ path[w - 2] = "["
        THEN path[w] ELSE ""

GetShortPath(path) ==
    IF LastDot(path) > 0 THEN Concat(SubSeq(path, LastDot(path) + 1, Len(path)))
    ELSE IF TrailingIndex(path) # "" THEN TrailingIndex(path)
    ELSE IF Len(Concat(path)) > 15 THEN SubSeq(Concat(path), 1, 12) \o "..."
    ELSE Concat(path)

\* label: source.targetProperty || this.getShortPath(source.sourcePath)
DataLabel(source) ==
    IF Concat(source.targetProperty) # "" THEN Concat(source.targetProperty)
    ELSE GetShortPath(source.sourcePath)

DataEdgesFromStart(node, source) ==
    IF source.sourceType = "literal" THEN <<>>
    ELSE <<Edge("df-start-" \o node.id \o "-" \o Concat(source.sourcePath),
                "start", node.id, "data_workflow_input", source.sourcePath,
                DataLabel(source))>>

DataEdges(node, source) ==
    IF source.sourceType = "workflow_input"
    THEN <<Edge("df-start-" \o node.id \o "-" \o Concat(source.sourcePath),
                "start", node.id, "data_workflow_input", source.sourcePath,
                DataLabel(source))>>
    ELSE IF source.sourceType = "activity_output" /\ source.sourceActivityId # ""
    THEN <<Edge("df-" \o source.sourceActivityId \o "-" \o node.id \o "-"
                      \o Concat(source.sourcePath),
                source.sourceActivityId, node.id, "data_activity_output",
                source.sourcePath, DataLabel(source))>>
    ELSE IF source.sourceType = "event_data"
    THEN <<Edge("df-event-" \o node.id, node.id, node.id, "data_event",
                source.sourcePath, "")>>
    ELSE <<>>

RECURSIVE SourceEdges(_, _)
SourceEdges(node, k) ==
    IF k > Len(node.dataSources) THEN <<>>
    ELSE DataEdges(node, node.dataSources[k]) \o SourceEdges(node, k + 1)

RECURSIVE DataFlowEdges(_, _)
DataFlowEdges(nodes, p) ==
    IF p > Len(nodes) THEN <<>>
    ELSE SourceEdges(nodes[p], 1) \o DataFlowEdges(nodes, p + 1)

BuildEdgesWithDataFlow(nodes, pgm) ==
    BuildControlFlowEdges(nodes, pgm) \o DataFlowEdges(nodes, 1)

(***************************************************************************)
(* parse: scoping, input-parameter name, the recognizers in the order they *)
(* run, assembly.  inputParam is the workflowInputParam field as the call  *)
(* finds it.  The outcome carries the fields as the call leaves them.      *)
(***************************************************************************)
Parse(sourceCode, targetWorkflowName, inputParam) ==
    With(SelectScope(sourceCode, targetWorkflowName), LAMBDA scope :
    With(ExtractWorkflowInputInfo(scope.code, inputParam), LAMBDA param :
    With(ParseActivities(scope.code, scope.lineOffset, param, EmptyMap, EmptyMap),
      LAMBDA activities :
    With(ParseChildWorkflows(scope.code, scope.lineOffset, param, activities.ovm),
      LAMBDA childWorkflows :
    With(ParseTimers(scope.code, scope.lineOffset, param, childWorkflows.ovm),
      LAMBDA timers :
    With(ParseExternalEvents(scope.code, scope.lineOffset, param, timers.ovm),
      LAMBDA events :
    With(ParseDecisions(scope.code, scope.lineOffset, param, events.ovm),
      LAMBDA decisions :
    With(ParseRetryPolicies(scope.code, scope.lineOffset, param, events.ovm),
      LAMBDA retries :
    With(ParseParallelBlocks(scope.code, scope.lineOffset, events.ovm,
                             activities.ptm, EmptyMap),
      LAMBDA parallelBlocks :
    With(AddStartEndNodes(activities.nodes \o childWorkflows.nodes
                          \o timers.nodes \o events.nodes \o decisions
                          \o retries.nodes \o parallelBlocks.nodes),
      LAMBDA nodes :
        [success |-> TRUE,
         name |-> scope.workflowName,
         nodes |-> nodes,
         edges |-> BuildEdgesWithDataFlow(nodes, parallelBlocks.pgm),
         workflowInputParam |-> param,
         outputVariableMap |-> parallelBlocks.ovm,
         parallelTaskMap |-> activities.ptm,
         parallelGroupMap |-> parallelBlocks.pgm]))))))))))

(***************************************************************************)
(* State machine.  The registry holds one PythonWorkflowParser for the     *)
(* life of the process (WorkflowParserFactory.parsers), so its fields      *)
(* carry over from one parse call to the next.  The document grows line by *)
(* line between calls; a call parses the document as it then stands.       *)
(***************************************************************************)
\* private workflowInputParam: string = 'input'
DefaultInputParam == "input"

\* a ParseResult: { success: true, workflow } or { success: false, errors };
\* nodes, edges, name and language are the workflow's, empty without one
NoResult == [called |-> FALSE, success |-> FALSE, name |-> "", language |-> "",
             nodes |-> <<>>, edges |-> <<>>, errors |-> <<>>]

\* return { success: true, workflow }
Success(out, language) ==
    [called |-> TRUE, success |-> TRUE, name |-> out.name, language |-> language,
     nodes |-> out.nodes, edges |-> out.edges, errors |-> <<>>]

\* return { success: false, errors: [{ message }] }
Failure(message) ==
    [called |-> TRUE, success |-> FALSE, name |-> "", language |-> "",
     nodes |-> <<>>, edges |-> <<>>, errors |-> <<message>>]

NoCall == [called |-> FALSE, source |-> <<>>, file |-> "", target |-> ""]

\* the graph the first tracked call returned, as its caller holds it;
\* outputVariableMap is dataFlow.outputVariableMap, the Map object the
\* parser's field referred to during that call
NoFirst == [called |-> FALSE, source |-> <<>>, target |-> "",
            nodes |-> <<>>, edges |-> <<>>, outputVariableMap |-> EmptyMap]

\* this.outputVariableMap = new Map(): the call fills a new object, the
\* object a held graph refers to keeps its entries
HeldMapRefilled(held, filled) == filled
HeldMap(held, filled) == held

NoScan == [done |-> FALSE, text |-> <<>>, open |-> 0, close |-> 0, input |-> <<>>,
           sources |-> <<>>]

Init ==
    /\ doc = <<>>
    /\ workflowInputParam = DefaultInputParam
    /\ outputVariableMap = EmptyMap
    /\ parallelTaskMap = EmptyMap
    /\ parallelGroupMap = EmptyMap
    /\ result = NoResult
    /\ parsed = NoCall
    /\ first = NoFirst
    /\ text = <<>>
    /\ scan = NoScan

\* the user adds a line to the document
TypeLine(stmts, max) ==
    /\ Len(doc) < max
    /\ \E s \in stmts : doc' = Append(doc, s)
    /\ UNCHANGED <<parserVars, text, scan>>

\* WorkflowParserFactory.parse(doc, "x.py", target) -> PythonWorkflowParser.parse
ParseCall(target, track) ==
    \E out \in {Parse(doc, target, workflowInputParam)} :
        /\ workflowInputParam' = out.workflowInputParam
        /\ outputVariableMap' = out.outputVariableMap
        /\ parallelTaskMap' = out.parallelTaskMap
        /\ parallelGroupMap' = out.parallelGroupMap
        /\ result' = Success(out, "python")
        /\ parsed' = [called |-> TRUE, source |-> doc, file |-> "x.py",
                      target |-> target]
        /\ first' = IF track /\ ~first.called
                    THEN [called |-> TRUE, source |-> doc, target |-> target,
                          nodes |-> out.nodes, edges |-> out.edges,
                          outputVariableMap |-> out.outputVariableMap]
                    ELSE [first EXCEPT !.outputVariableMap =
                                           HeldMap(@, out.outputVariableMap)]
        /\ UNCHANGED <<doc, text, scan>>

(***************************************************************************)
(* Control-flow specification: tasks, joins and ordinary steps in every    *)
(* order.                                                                  *)
(***************************************************************************)
TaskStmt(name, taskVar, in) == Stmt("task", name, taskVar, in, <<>>, <<>>)
ActStmt(name, out, in) == Stmt("act", name, out, in, <<>>, <<>>)
RetryActStmt(name, out, in) == Stmt("ract", name, out, in, <<>>, <<>>)
RetryStmt(name) == Stmt("retry", name, "", <<>>, <<>>, <<>>)
ChildStmt(name, out, in) == Stmt("child", name, out, in, <<>>, <<>>)
TimerStmt(out) == Stmt("timer", "1", out, <<>>, <<>>, <<>>)
EventStmt(name, out) == Stmt("event", name, out, <<>>, <<>>, <<>>)
JoinStmt(outs, tasks) == Stmt("join", "", "", <<>>, tasks, outs)
WfStmt(name, param) == Stmt("wf", name, param, <<>>, <<>>, <<>>)
DeclStmt == Stmt("decl", "", "", <<>>, <<>>, <<>>)

ControlStmts ==
    {TaskStmt("A", "a_task", <<>>), TaskStmt("B", "b_task", <<>>),
     ActStmt("C", "", <<>>), WfStmt("main", ""),
     JoinStmt(<<>>, <<"a_task">>), JoinStmt(<<>>, <<"b_task">>),
     JoinStmt(<<>>, <<"a_task", "b_task">>)}

TypeControlLine == TypeLine(ControlStmts, MaxLines)

ParseDocument == ParseCall("", FALSE)

Next == TypeControlLine \/ ParseDocument

Spec == Init /\ [][Next]_vars

(***************************************************************************)
(* Scope specification: files with several workflows and @activity         *)
(* definitions, parsed with and without a target workflow name.            *)
(***************************************************************************)
ScopeStmts ==
    {WfStmt("A", ""), WfStmt("B", ""), DeclStmt, ActStmt("X", "", <<>>)}

Targets == {"", "B", "Z"}

TypeScopeLine == TypeLine(ScopeStmts, MaxLines)

ParseTarget == \E target \in Targets : ParseCall(target, FALSE)

NextScope == TypeScopeLine \/ ParseTarget

SpecScope == Init /\ [][NextScope]_vars

(***************************************************************************)
(* Call-sequence specification: one parser instance serving calls for      *)
(* different workflows of a file, one of which names its input parameter.  *)
(***************************************************************************)
CallStmts ==
    {WfStmt("A", "order"), WfStmt("B", ""),
     ActStmt("X", "", <<"order", ".", "f", "*", "2">>),
     ActStmt("Y", "r", <<>>)}

CallTargets == {"", "A", "B"}

TypeCallLine == TypeLine(CallStmts, MaxFlowLines)

ParseAgain == \E target \in CallTargets : ParseCall(target, TRUE)

NextCalls == TypeCallLine \/ ParseAgain

SpecCalls == Init /\ [][NextCalls]_vars

(***************************************************************************)
(* Data-flow specification: steps of every kind binding a variable, and    *)
(* activities and child workflows taking it as input.                      *)
(***************************************************************************)
FlowStmts ==
    {ActStmt("P", "r", <<>>), ChildStmt("W", "r", <<>>), TimerStmt("r"),
     EventStmt("E", "r"), TaskStmt("T", "r_task", <<>>),
     ActStmt("Q", "", <<"r">>), ActStmt("Q", "", <<"r", ".", "f">>),
     ActStmt("Q", "", <<"r_task">>), ChildStmt("V", "", <<"r">>),
     ActStmt("P", "r", <<"r">>), JoinStmt(<<"res">>, <<"r_task">>),
     ActStmt("Q", "", <<"res">>)}

TypeFlowLine == TypeLine(FlowStmts, MaxFlowLines)

NextFlow == TypeFlowLine \/ ParseDocument

SpecFlow == Init /\ [][NextFlow]_vars

(***************************************************************************)
(* Scanner specification: findMatchingBracket applied to every text of     *)
(* braces, quotes and backslashes, at every opening brace.                 *)
(***************************************************************************)
\* the texts of at most max tokens
Texts(tokens, max) == UNION {[1..n -> tokens] : n \in 0..max}

ScanTokens == {"{", "}", DQ, BS}

InitScan ==
    /\ text \in Texts(ScanTokens, MaxText)
    /\ doc = <<>>
    /\ workflowInputParam = DefaultInputParam
    /\ outputVariableMap = EmptyMap
    /\ parallelTaskMap = EmptyMap
    /\ parallelGroupMap = EmptyMap
    /\ result = NoResult
    /\ parsed = NoCall
    /\ first = NoFirst
    /\ scan = NoScan

\* endIndex = this.findMatchingBracket(sourceCode, inputStart), and the
\* input expression extractInputExpression returns for that inputStart
ScanBracket ==
    /\ \E openIndex \in 0..(Len(text) - 1) :
          /\ At(text, openIndex) \in Openers
          /\ scan' = [done |-> TRUE, text |-> text, open |-> openIndex,
                      close |-> FindMatchingBracket(text, openIndex),
                      input |-> InputFrom(text, openIndex),
                      sources |-> <<>>]
    /\ UNCHANGED <<doc, parserVars, text>>

NextScan == ScanBracket

SpecScan == InitScan /\ [][NextScan]_vars

(***************************************************************************)
(* Keyed-literal specification: analyzeDataSource applied to every dict    *)
(* literal { text } over keys, colons, commas, quotes and brackets.        *)
(***************************************************************************)
DictTokens == {"k", ":", ",", DQ, "[", "]"}

InitDict ==
    /\ text \in Texts(DictTokens, MaxDict)
    /\ doc = <<>>
    /\ workflowInputParam = DefaultInputParam
    /\ outputVariableMap = EmptyMap
    /\ parallelTaskMap = EmptyMap
    /\ parallelGroupMap = EmptyMap
    /\ result = NoResult
    /\ parsed = NoCall
    /\ first = NoFirst
    /\ scan = NoScan

\* dataSources = this.analyzeDataSource(inputExpr), inputExpr the literal
AnalyzeLiteral ==
    /\ ~scan.done
    /\ scan' = [done |-> TRUE, text |-> <<"{">> \o text \o <<"}">>,
                open |-> 0, close |-> 0, input |-> <<"{">> \o text \o <<"}">>,
                sources |-> AnalyzeDataSource(<<"{">> \o text \o <<"}">>,
                                              workflowInputParam,
                                              outputVariableMap)]
    /\ UNCHANGED <<doc, parserVars, text>>

NextDict == AnalyzeLiteral

SpecDict == InitDict /\ [][NextDict]_vars

(***************************************************************************)
(* Decision specification: conditionals over the workflow input, over a    *)
(* variable whose name ends with the parameter's name and over a produced  *)
(* variable, guarding activities and event waits.                          *)
(***************************************************************************)
IfStmt(condition) == Stmt("if", "", "", condition, <<>>, <<>>)

DecisionStmts ==
    {IfStmt(<<"input", ".", "x">>), IfStmt(<<"input">>),
     IfStmt(<<"input", ".", "x", ">", "my_input", ".", "y">>),
     IfStmt(<<"r", ".", "ok">>),
     ActStmt("P", "input", <<>>), ActStmt("P", "r", <<>>),
     ActStmt("Q", "", <<"input">>), EventStmt("E", "")}

TypeDecisionLine == TypeLine(DecisionStmts, MaxFlowLines)

NextDecision == TypeDecisionLine \/ ParseDocument

SpecDecision == Init /\ [][NextDecision]_vars

(***************************************************************************)
(* Node specification: one statement of every kind the recognizers know,   *)
(* among them a call that carries its retry policy on the same line.       *)
(***************************************************************************)
StringActStmt(name, out, in) == Stmt("sact", name, out, in, <<>>, <<>>)

NodeStmts ==
    {TaskStmt("T", "r_task", <<>>), ActStmt("P", "r", <<>>),
     StringActStmt("S", "", <<>>), RetryActStmt("P", "", <<>>),
     RetryStmt("policy"), ChildStmt("W", "", <<>>), TimerStmt(""),
     EventStmt("E", ""), JoinStmt(<<>>, <<"r_task">>), IfStmt(<<"r">>)}

TypeNodeLine == TypeLine(NodeStmts, MaxFlowLines)

NextNodes == TypeNodeLine \/ ParseDocument

SpecNodes == Init /\ [][NextNodes]_vars

(***************************************************************************)
(* Data-edge specification: inputs of every provenance, a keyed literal    *)
(* whose entries have one path, and a condition on a timer's result.       *)
(***************************************************************************)
DataStmts ==
    {ActStmt("P", "r", <<>>), TimerStmt("t"), EventStmt("E", "e"),
     ActStmt("Q", "", <<"r">>),
     ActStmt("Q", "", <<"{", "a", ":", "r", ",", "b", ":", "r", "}">>),
     ActStmt("Q", "", <<"{", "a", ":", "r", ",", "b", ":", "input", ".", "x",
                        ",", "c", ":", DQ, "s", DQ, "}">>),
     ChildStmt("V", "", <<"e">>), IfStmt(<<"t">>)}

TypeDataLine == TypeLine(DataStmts, MaxFlowLines)

NextData == TypeDataLine \/ ParseDocument

SpecData == Init /\ [][NextData]_vars

(***************************************************************************)
(* Registry specification: WorkflowParserFactory choosing a parser by file *)
(* name, and parse calls that end in an exception.  The documents hold     *)
(* awaited calls without input and without result variable only, which    *)
(* leave the fields of every parser instance as constructed, so the one    *)
(* set of fields stands for each instance.                                 *)
(***************************************************************************)
\* WorkflowParserFactory.parsers: the registered parsers, by language
parsers == <<"csharp", "python", "javascript", "typescript">>

\* canParse of the parser registered for the language
CanParseLoose(language, filePath) ==
    CASE language = "csharp" -> EndsWith(filePath, ".cs")
      [] language = "python" ->
             \E i \in 1..(Len(filePath) - 2) : SubSeq(filePath, i, i + 2) = ".py"
      [] OTHER -> \/ EndsWith(filePath, ".js") \/ EndsWith(filePath, ".ts")
                  \/ EndsWith(filePath, ".mjs") \/ EndsWith(filePath, ".mts")
CanParse(language, filePath) ==
    CASE language = "csharp" -> EndsWith(filePath, ".cs")
      [] language = "python" -> EndsWith(filePath, ".py")
      [] OTHER -> \/ EndsWith(filePath, ".js") \/ EndsWith(filePath, ".ts")
                  \/ EndsWith(filePath, ".mjs") \/ EndsWith(filePath, ".mts")

\* parsers.find(parser => parser.canParse(filePath)); 0 stands for undefined
GetParser(filePath) ==
    LET able == {p \in 1..Len(parsers) : CanParse(parsers[p], filePath)}
    IN  IF able = {} THEN 0 ELSE CHOOSE p \in able : \A q \in able : p <= q

\* parsers.some(parser => parser.canParse(filePath))
FactoryCanParse(filePath) ==
    \E p \in 1..Len(parsers) : CanParse(parsers[p], filePath)

GetSupportedExtensions == <<".cs", ".py", ".js", ".ts", ".mjs", ".mts">>

\* getLanguage: "" is undefined
GetLanguage(filePath) ==
    IF EndsWith(filePath, ".cs") THEN "csharp"
    ELSE IF EndsWith(filePath, ".py") THEN "python"
    ELSE IF EndsWith(filePath, ".ts") \/ EndsWith(filePath, ".mts") THEN "typescript"
    ELSE IF EndsWith(filePath, ".js") \/ EndsWith(filePath, ".mjs") THEN "javascript"
    ELSE ""

NoParserMessage(filePath) ==
    "No parser available for file: " \o filePath
        \o ". Supported languages: C#, Python, JavaScript, TypeScript"

RegistryStmts == {ActStmt("X", "", <<>>), ActStmt("Y", "", <<>>)}

FilePaths ==
    {"w.py", "w.cs", "w.js", "w.ts", "w.mjs", "w.mts",
     "w.txt", "w.py.bak", "w.tsx", "py", "wcs", ".py"}

TypeRegistryLine == TypeLine(RegistryStmts, MaxFlowLines)

\* WorkflowParserFactory.parse(doc, filePath)
FactoryParse ==
    \E filePath \in FilePaths :
        /\ parsed' = [called |-> TRUE, source |-> doc, file |-> filePath,
                      target |-> ""]
        /\ IF GetParser(filePath) = 0
           THEN /\ result' = Failure(NoParserMessage(filePath))
                /\ UNCHANGED <<workflowInputParam, outputVariableMap,
                               parallelTaskMap, parallelGroupMap>>
           ELSE \E out \in {Parse(doc, "", workflowInputParam)} :
                    /\ workflowInputParam' = out.workflowInputParam
                    /\ outputVariableMap' = out.outputVariableMap
                    /\ parallelTaskMap' = out.parallelTaskMap
                    /\ parallelGroupMap' = out.parallelGroupMap
                    /\ result' = Success(out, parsers[GetParser(filePath)])
        /\ UNCHANGED <<doc, first, text, scan>>

\* the catch block of parse: the error's message, nothing of the workflow
CaughtWithGraph(message, out) ==
    [Failure(message) EXCEPT !.nodes = out.nodes, !.edges = out.edges]
Caught(message, out) == Failure(message)

\* where the exception is raised: before the input parameter is read,
\* before the first recognizer, or while the edges are built
ThrowPoints == {"scope", "recognize", "assemble"}

ErrorMessage == "Maximum call stack size exceeded"

\* a parse call in which an exception is raised inside the try block
FactoryParseThrows ==
    \E filePath \in FilePaths, at \in ThrowPoints :
        /\ GetParser(filePath) # 0
        /\ parsed' = [called |-> TRUE, source |-> doc, file |-> filePath,
                      target |-> ""]
        /\ \E out \in {Parse(doc, "", workflowInputParam)} :
              /\ workflowInputParam' =
                     IF at = "scope" THEN workflowInputParam
                     ELSE out.workflowInputParam
              /\ outputVariableMap' =
                     IF at = "assemble" THEN out.outputVariableMap ELSE EmptyMap
              /\ parallelTaskMap' =
                     IF at = "assemble" THEN out.parallelTaskMap ELSE EmptyMap
              /\ parallelGroupMap' =
                     IF at = "assemble" THEN out.parallelGroupMap ELSE EmptyMap
              /\ result' = Caught(ErrorMessage, out)
        /\ UNCHANGED <<doc, first, text, scan>>

NextRegistry == TypeRegistryLine \/ FactoryParse \/ FactoryParseThrows

SpecRegistry == Init /\ [][NextRegistry]_vars

(***************************************************************************)
(* Properties of the graph a parse call returns.                           *)
(***************************************************************************)
ControlEdges(edges) ==
    SelectSeq(edges, LAMBDA e : e.type \in {"default", "parallel"})

EdgeSet(edges) == {edges[p] : p \in 1..Len(edges)}

NodeSet(nodes) == {nodes[p] : p \in 1..Len(nodes)}

NodeIds(nodes) == {n.id : n \in NodeSet(nodes)}

StepNodes(nodes) == {n \in NodeSet(nodes) : n.type \notin {"start", "end"}}

\* the node of S on the greatest source line
LatestOf(S) == CHOOSE n \in S : \A m \in S : m.lineNumber <= n.lineNumber

\* the nodes mapped to a join by parallelGroupMap
GroupOf(nodes, pgm, joinNodeId) ==
    {n \in NodeSet(nodes) : MapGet(pgm, n.id) = joinNodeId}

\* the node right before the group's first member in line order
PrecedingNode(nodes, group) ==
    LatestOf({n \in NodeSet(nodes) :
                 /\ n.type # "end"
                 /\ \A g \in group : n.lineNumber < g.lineNumber})

\* C1: every join with k >= 1 mapped tasks has exactly k parallel edges into
\* its group and exactly k from the group's members to the join, and all the
\* edges into the group start at one node, the node right before the group in
\* line order (so not the join, and no node that sorts after a member).
FanOutFanInTopology ==
    result.called =>
        \A j \in {n \in NodeSet(result.nodes) : n.type = "parallel"} :
            LET group == GroupOf(result.nodes, parallelGroupMap, j.id)
                ids == {g.id : g \in group}
                control == ControlEdges(result.edges)
                fanOut == SelectSeq(control, LAMBDA e :
                              e.type = "parallel" /\ e.target \in ids)
                fanIn == SelectSeq(control, LAMBDA e :
                             e.type = "parallel" /\ e.source \in ids /\ e.target = j.id)
            IN  group # {} =>
                    /\ Len(fanOut) = Cardinality(group)
                    /\ Len(fanIn) = Cardinality(group)
                    /\ \A p \in 1..Len(fanOut) :
                           /\ fanOut[p].source = PrecedingNode(result.nodes, group).id
                           /\ fanOut[p].source # j.id

\* C4: source and target of every control edge are ids of nodes of the graph,
\* no control edge enters start and none leaves end.
ControlEdgesWellFormed ==
    result.called =>
        \A e \in EdgeSet(ControlEdges(result.edges)) :
            /\ e.source \in NodeIds(result.nodes)
            /\ e.target \in NodeIds(result.nodes)
            /\ e.target # "start"
            /\ e.source # "end"

\* a graph with a fan-out, a fan-in and an ordinary step before the end node
ControlEdgesWitness ==
    /\ result.called
    /\ \E e \in EdgeSet(result.edges) : e.type = "parallel" /\ e.source = "start"
    /\ \E e \in EdgeSet(result.edges) :
           e.type = "default" /\ e.target = "end" /\ e.source # "start"
    /\ Len(result.nodes) >= 5

NoParallelStep(nodes) ==
    \A n \in NodeSet(nodes) : ~n.isParallelTask /\ n.type # "parallel"

\* the step before n in line order, start for the first step
StepBefore(nodes, n) ==
    LET earlier == {m \in StepNodes(nodes) : m.lineNumber < n.lineNumber}
    IN  IF earlier = {} THEN "start" ELSE LatestOf(earlier).id

\* C6: without parallel tasks and joins the control edges are exactly
\* start -> s1, s_i -> s_(i+1) and sn -> end, the steps taken in line order.
SequentialChain ==
    result.called /\ NoParallelStep(result.nodes) =>
        LET steps == StepNodes(result.nodes)
            control == ControlEdges(result.edges)
        IN  /\ Len(control) = Cardinality(steps) + 1
            /\ \A n \in steps :
                   ControlEdge(StepBefore(result.nodes, n), n.id, "default")
                       \in EdgeSet(control)
            /\ ControlEdge(IF steps = {} THEN "start" ELSE LatestOf(steps).id,
                           "end", "default") \in EdgeSet(control)

\* a chain of three steps has been returned
SequentialChainWitness ==
    /\ result.called
    /\ NoParallelStep(result.nodes)
    /\ Cardinality(StepNodes(result.nodes)) >= 3
    /\ Len(ControlEdges(result.edges)) = Cardinality(StepNodes(result.nodes)) + 1

\* a line that holds a step: a call the recognizers turn into a node
IsStepLine(sourceCode, i) ==
    \/ sourceCode[i].k \in {"task", "act", "ract", "sact", "child", "timer",
                            "event", "join", "retry"}
    \/ GuardsStep(sourceCode, i)

StepLines(sourceCode) == {i \in 1..Len(sourceCode) : IsStepLine(sourceCode, i)}

\* C5: a source without any step gives the node list [start, end] and the
\* single control edge start -> end.
EmptyGraph ==
    result.called /\ StepLines(parsed.source) = {} =>
        /\ result.success
        /\ result.nodes = <<StartNode, EndNode>>
        /\ ControlEdges(result.edges) = <<ControlEdge("start", "end", "default")>>

\* a file of workflow and activity definitions without steps has been parsed
EmptyGraphWitness ==
    /\ result.called
    /\ Len(parsed.source) >= 3
    /\ StepLines(parsed.source) = {}
    /\ \E i \in 1..Len(parsed.source) : parsed.source[i].k = "wf"
    /\ Len(result.nodes) = 2

\* the lines of the text range C9 gives the call
IntendedRange(sourceCode, targetWorkflowName) ==
    LET allWorkflows == FindAllWorkflows(sourceCode)
        named == {p \in 1..Len(allWorkflows) :
                     allWorkflows[p].name = targetWorkflowName}
        chosen == IF targetWorkflowName # "" /\ named # {}
                  THEN allWorkflows[CHOOSE p \in named : \A q \in named : p <= q]
                  ELSE allWorkflows[1]
    IN  IF allWorkflows = <<>> THEN 1..Len(sourceCode)
        ELSE chosen.startLine..chosen.endIndex

\* C9: the steps that become nodes are those of the target workflow's range
\* when the target is found, of the first workflow's range when no target is
\* given or the target is not found, of the whole file when no workflow is
\* discovered.
ScopeSelection ==
    result.called =>
        {n.lineNumber : n \in StepNodes(result.nodes)}
            = StepLines(parsed.source)
                  \cap IntendedRange(parsed.source, parsed.target)

\* C3: whatever calls came before, the returned graph is the one a freshly
\* constructed parser returns for the same source and target.
CallIndependence ==
    result.called =>
        LET fresh == Parse(parsed.source, parsed.target, DefaultInputParam)
        IN  /\ result.name = fresh.name
            /\ result.nodes = fresh.nodes
            /\ result.edges = fresh.edges

\* C10: a call with the source and target of the first call returns the
\* nodes and edges the first call returned.
Idempotence ==
    /\ result.called
    /\ first.called
    /\ parsed.source = first.source
    /\ parsed.target = first.target
    => /\ result.nodes = first.nodes
       /\ result.edges = first.edges

\* the steps that bind v
Binders(nodes, v) == {n \in StepNodes(nodes) : n.output = v}

\* C2: when step n binds v (and no other step does), every step on a later
\* line whose input is v or an access rooted at v has the single data source
\* activity_output with producer n.
ProducerResolution ==
    result.called =>
        \A n \in StepNodes(result.nodes) :
            \A c \in StepNodes(result.nodes) :
                /\ n.output # ""
                /\ Binders(result.nodes, n.output) = {n}
                /\ c.lineNumber > n.lineNumber
                /\ c.input # <<>>
                /\ RootedAt(c.input, n.output)
                => /\ Len(c.dataSources) = 1
                   /\ c.dataSources[1].sourceType = "activity_output"
                   /\ c.dataSources[1].sourceActivityId = n.id

\* the statement a node was recognized from, the lines of the flow documents
\* being the lines of the scoped text
StmtOf(node) == parsed.source[node.lineNumber]

CallsWithoutInput ==
    {n \in StepNodes(result.nodes) :
        /\ n.type \in {"activity", "subOrchestration", "timer"}
        /\ StmtOf(n).in = <<>>}

\* C18: a step whose call has no input expression has no input and no data
\* sources, and no data edge ends at it, whatever calls follow it in the text.
StepWithoutInput ==
    result.called =>
        \A n \in CallsWithoutInput :
            /\ n.input = <<>>
            /\ n.dataSources = <<>>
            /\ \A k \in 1..Len(result.edges) :
                   result.edges[k].target = n.id =>
                       result.edges[k].dataFlow = <<>>

JoinNodes == {n \in NodeSet(result.nodes) : n.type = "parallel"}

\* the variables of the left-hand side of the fan-in that no step and no
\* other fan-in binds
JoinOutputs(j) ==
    {v \in {StmtOf(j).outs[k] : k \in 1..Len(StmtOf(j).outs)} :
        /\ Binders(result.nodes, v) = {}
        /\ \A other \in JoinNodes \ {j} : \A k \in 1..Len(StmtOf(other).outs) : StmtOf(other).outs[k] # v}

\* C19: a step on a later line whose own input is a variable bound on the
\* left-hand side of a fan-in, or an access rooted at it, has the single data
\* source activity_output with the join node as producer.
JoinResultVariable ==
    result.called =>
        \A j \in JoinNodes :
            \A c \in StepNodes(result.nodes) :
                \A v \in JoinOutputs(j) :
                    /\ c.lineNumber > j.lineNumber
                    /\ c.input # <<>>
                    /\ c.input = StmtOf(c).in
                    /\ RootedAt(c.input, v)
                    => /\ Len(c.dataSources) = 1
                       /\ c.dataSources[1].sourceType = "activity_output"
                       /\ c.dataSources[1].sourceActivityId = j.id

\* C20: the producer of every activity_output source is a node emitted before
\* the consuming node, and no data edge of that kind is a self-loop.
ProducerPrecedesConsumer ==
    result.called =>
        /\ \A q \in 1..Len(result.nodes) :
              \A k \in 1..Len(result.nodes[q].dataSources) :
                  LET source == result.nodes[q].dataSources[k]
                  IN  /\ source.sourceType = "activity_output"
                      /\ source.sourceActivityId # ""
                      => \E p \in 1..(q - 1) :
                            result.nodes[p].id = source.sourceActivityId
        /\ \A k \in 1..Len(result.edges) :
              result.edges[k].type = "data_activity_output" =>
                  result.edges[k].source # result.edges[k].target

(***************************************************************************)
(* The closer C7 asks for: the scan of findMatchingBracket with a quote    *)
(* taken as escaped only when an odd number of backslashes precedes it;    *)
(* -1 when the bracket has no matching closer.                             *)
(***************************************************************************)
RECURSIVE BackslashesBefore(_, _)
BackslashesBefore(s, i) ==
    IF At(s, i - 1) = BS THEN 1 + BackslashesBefore(s, i - 1) ELSE 0

EscapedQuote(s, i) == BackslashesBefore(s, i) % 2 = 1

RECURSIVE CloserLoop(_, _, _, _, _)
CloserLoop(s, openChar, i, depth, inString) ==
    IF i >= Len(s) THEN -1
    ELSE
      LET char == At(s, i)
          three == Substring(s, i, i + 3)
      IN  IF char \in {DQ, SQ} /\ ~EscapedQuote(s, i)
          THEN IF inString = <<>>
               THEN IF three \in TripleQuotes
                    THEN CloserLoop(s, openChar, i + 3, depth, three)
                    ELSE CloserLoop(s, openChar, i + 1, depth, <<char>>)
               ELSE IF Len(inString) = 3 /\ three = inString
               THEN CloserLoop(s, openChar, i + 3, depth, <<>>)
               ELSE IF inString = <<char>>
               THEN CloserLoop(s, openChar, i + 1, depth, <<>>)
               ELSE CloserLoop(s, openChar, i + 1, depth, inString)
          ELSE IF inString # <<>>
          THEN CloserLoop(s, openChar, i + 1, depth, inString)
          ELSE IF char = openChar
          THEN CloserLoop(s, openChar, i + 1, depth + 1, inString)
          ELSE IF char = CloseCharOf(openChar)
          THEN IF depth = 1 THEN i
               ELSE CloserLoop(s, openChar, i + 1, depth - 1, inString)
          ELSE CloserLoop(s, openChar, i + 1, depth, inString)

MatchingCloser(s, openIndex) ==
    CloserLoop(s, At(s, openIndex), openIndex + 1, 1, <<>>)

\* C7: when the bracket at the opening position has a matching closer, with
\* brackets inside strings not counted and strings entered and left only on
\* unescaped quotes, findMatchingBracket returns the index of that closer.
BalancedScanner ==
    scan.done /\ MatchingCloser(scan.text, scan.open) # -1 =>
        scan.close = MatchingCloser(scan.text, scan.open)

\* C17: when the bracket at the opening position has no matching closer,
\* findMatchingBracket returns no index of the text, and the caller takes no
\* input expression.
UnclosedDelimiter ==
    scan.done /\ MatchingCloser(scan.text, scan.open) = -1 =>
        /\ scan.close \notin 0..(Len(scan.text) - 1)
        /\ scan.input = <<>>

(***************************************************************************)
(* The entries C8 asks for: the text split on the commas that are at depth *)
(* 0 and outside every string, brackets inside strings not counted.  st is *)
(* [depth, quote, current, pieces, nested]; nested is FALSE once a closer  *)
(* has no opener.                                                          *)
(***************************************************************************)
RECURSIVE PieceLoop(_, _, _)
PieceLoop(dictContent, i, st) ==
    IF i > Len(dictContent)
    THEN IF Trim(st.current) # <<>>
         THEN [st EXCEPT !.pieces = Append(@, Trim(st.current))] ELSE st
    ELSE
      LET char == dictContent[i]
          kept == [st EXCEPT !.current = Append(@, char)]
      IN  IF st.quote # ""
          THEN PieceLoop(dictContent, i + 1,
                         IF char = st.quote /\ ~EscapedQuote(dictContent, i - 1)
                         THEN [kept EXCEPT !.quote = ""] ELSE kept)
          ELSE IF char \in {DQ, SQ}
          THEN PieceLoop(dictContent, i + 1, [kept EXCEPT !.quote = char])
          ELSE IF char \in Openers
          THEN PieceLoop(dictContent, i + 1, [kept EXCEPT !.depth = @ + 1])
          ELSE IF char \in Closers
          THEN PieceLoop(dictContent, i + 1,
                         [kept EXCEPT !.depth = @ - 1,
                                      !.nested = @ /\ st.depth > 0])
          ELSE IF char = "," /\ st.depth = 0
          THEN PieceLoop(dictContent, i + 1,
                         [st EXCEPT !.current = <<>>,
                                    !.pieces = Append(@, Trim(st.current))])
          ELSE PieceLoop(dictContent, i + 1, kept)

TopLevelPieces(dictContent) ==
    PieceLoop(dictContent, 1,
              [depth |-> 0, quote |-> "", current |-> <<>>, pieces |-> <<>>,
               nested |-> TRUE])

\* key: value with the key a word or a quoted word and a value
IsEntry(piece) ==
    LET colonIdx == IndexOf(piece, ":")
        key == Trim(Substring(piece, 0, colonIdx))
    IN  /\ colonIdx > 0
        /\ \/ Len(key) = 1 /\ IsWord(key[1])
           \/ Len(key) = 3 /\ IsWord(key[2]) /\ key[1] \in {DQ, SQ} /\ key[3] = key[1]
        /\ Trim(Substring(piece, colonIdx + 1, Len(piece))) # <<>>

\* a keyed literal: strings and brackets closed, every piece an entry
IsKeyedLiteral(dictContent) ==
    LET st == TopLevelPieces(dictContent)
    IN  /\ st.quote = "" /\ st.depth = 0 /\ st.nested
        /\ \A k \in 1..Len(st.pieces) : IsEntry(st.pieces[k])

TopLevelEntries(dictContent) ==
    LET pieces == TopLevelPieces(dictContent).pieces
    IN  [k \in 1..Len(pieces) |-> ParseKeyValue(pieces[k])]

\* C8: a keyed literal with n top-level entries gives n data sources, in
\* entry order, each with its entry's key as targetProperty and the type
\* classifyExpression gives the entry's value.
KeyedLiteralClassification ==
    scan.done /\ IsKeyedLiteral(SubSeq(scan.text, 2, Len(scan.text) - 1)) =>
        LET entries == TopLevelEntries(SubSeq(scan.text, 2, Len(scan.text) - 1))
        IN  /\ Len(scan.sources) = Len(entries)
            /\ \A k \in 1..Len(entries) :
                   /\ k <= Len(scan.sources)
                   /\ scan.sources[k].targetProperty = entries[k].key
                   /\ scan.sources[k].sourceType
                          = ClassifyExpression(entries[k].value, entries[k].key,
                                               workflowInputParam,
                                               outputVariableMap).sourceType

(***************************************************************************)
(* Decisions.                                                              *)
(***************************************************************************)
\* C11: no data source whose path is the input parameter, or an access
\* rooted at it, has kind activity_output, on a step or on a decision.
InputParamTieBreak ==
    result.called =>
        \A p \in 1..Len(result.nodes) :
            \A k \in 1..Len(result.nodes[p].dataSources) :
                RootedAt(result.nodes[p].dataSources[k].sourcePath, workflowInputParam)
                    => result.nodes[p].dataSources[k].sourceType # "activity_output"

\* the positions where the condition names the input parameter
InputReferences(condition, inputParam) ==
    {p \in 1..Len(condition) : condition[p] = inputParam}

\* the name at p with the accesses (.word, [word]) that follow it
ReferencedPath(condition, p) ==
    LET ends == {e \in p..Len(condition) : AccessTail(SubSeq(condition, p + 1, e))}
    IN  SubSeq(condition, p, CHOOSE e \in ends : \A f \in ends : f <= e)

\* the lines of the parsed source holding a conditional that names the
\* input once and whose body starts with a recognized awaited step
GuardedByInput(sourceCode, inputParam) ==
    {i \in 1..(Len(sourceCode) - 1) :
        /\ sourceCode[i].k = "if"
        /\ Cardinality(InputReferences(sourceCode[i].in, inputParam)) = 1
        /\ sourceCode[i + 1].k \in {"act", "child", "timer", "event"}}

NodesAt(nodes, type, lineNumber) ==
    {p \in 1..Len(nodes) : nodes[p].type = type /\ nodes[p].lineNumber = lineNumber}

WorkflowInputSources(node) ==
    SelectSeq(node.dataSources, LAMBDA d : d.sourceType = "workflow_input")

\* C12: a conditional naming the workflow input once and guarding a
\* recognized step gives one decision node with exactly one workflow_input
\* source, the referenced path, and the control edge leaving the decision
\* node goes to the guarded step.
DecisionScenario ==
    result.called =>
        \A i \in GuardedByInput(parsed.source, workflowInputParam) :
            LET condition == parsed.source[i].in
                ref == CHOOSE p \in InputReferences(condition, workflowInputParam) : TRUE
                decisions == NodesAt(result.nodes, "decision", i)
                steps == {p \in 1..Len(result.nodes) :
                              /\ result.nodes[p].lineNumber = i + 1
                              /\ result.nodes[p].type # "decision"}
            IN  /\ Cardinality(decisions) = 1
                /\ \A d \in decisions :
                      /\ Len(WorkflowInputSources(result.nodes[d])) = 1
                      /\ WorkflowInputSources(result.nodes[d])[1].sourcePath
                             = ReferencedPath(condition, ref)
                      /\ \E e \in EdgeSet(ControlEdges(result.edges)) :
                             e.source = result.nodes[d].id
                      /\ \A e \in EdgeSet(ControlEdges(result.edges)) :
                             e.source = result.nodes[d].id
                                 => \E q \in steps : e.target = result.nodes[q].id

\* C13: the control edges leaving a decision node carry the labels True
\* and False, one edge per branch.
ConditionalBranching ==
    result.called =>
        \A p \in 1..Len(result.nodes) :
            result.nodes[p].type = "decision" =>
                LET out == {e \in EdgeSet(ControlEdges(result.edges)) :
                                e.source = result.nodes[p].id}
                IN  /\ out # {}
                    /\ \A e \in out : e.label \in {"True", "False"}
                    /\ \A e, f \in out : e.label = f.label => e = f

(***************************************************************************)
(* Registry and failure outcomes.                                          *)
(***************************************************************************)
Supported(filePath) ==
    \E k \in 1..Len(GetSupportedExtensions) :
        EndsWith(filePath, GetSupportedExtensions[k])

\* the characters of part occur in whole
Contains(whole, part) ==
    \E i \in 1..(Len(whole) - Len(part) + 1) :
        SubSeq(whole, i, i + Len(part) - 1) = part

\* C14: a file with none of the supported extensions is claimed by no
\* parser, and only such a file; parsing it returns a failure with no
\* graph and one error naming the file.
UnsupportedFile ==
    result.called =>
        /\ FactoryCanParse(parsed.file) <=> Supported(parsed.file)
        /\ ~Supported(parsed.file) =>
              /\ ~result.success
              /\ result.nodes = <<>> /\ result.edges = <<>>
              /\ Len(result.errors) = 1
              /\ Contains(result.errors[1], parsed.file)

UnsupportedFileWitness ==
    result.called /\ ~Supported(parsed.file) /\ Len(parsed.source) > 0

\* C15: an outcome is a success with a complete graph and no errors, or a
\* failure with an error message and no graph, also when an exception was
\* raised during the call.
AtomicFailure ==
    result.called =>
        \/ /\ result.success
           /\ result.errors = <<>>
           /\ result.nodes[1] = StartNode
           /\ result.nodes[Len(result.nodes)] = EndNode
           /\ ControlEdges(result.edges) # <<>>
        \/ /\ ~result.success
           /\ result.errors # <<>>
           /\ result.nodes = <<>> /\ result.edges = <<>>

\* an exception was raised while parsing a document with steps
AtomicFailureWitness ==
    /\ result.called /\ ~result.success
    /\ GetParser(parsed.file) # 0
    /\ Len(parsed.source) > 0

\* C16: a file with a supported extension is claimed by exactly one of the
\* registered parsers.
RegistryUniqueness ==
    result.called /\ Supported(parsed.file) =>
        Cardinality({p \in 1..Len(parsers) : CanParse(parsers[p], parsed.file)}) = 1

\* C21: no two step nodes of a returned graph have the same source line.
DuplicateDetection ==
    result.called =>
        \A p \in 1..Len(result.nodes) :
            \A q \in 1..Len(result.nodes) :
                /\ p # q
                /\ result.nodes[p].type \notin {"start", "end"}
                /\ result.nodes[q].type \notin {"start", "end"}
                => result.nodes[p].lineNumber # result.nodes[q].lineNumber

\* the id prefix of each kind of node
PrefixOf(type) ==
    CASE type = "activity" -> "activity"
      [] type = "subOrchestration" -> "child"
      [] type = "parallel" -> "parallel-join"
      [] OTHER -> type

\* the nodes of the kind of nodes[q] emitted before it
EmittedBefore(nodes, q) ==
    Cardinality({p \in 1..(q - 1) : nodes[p].type = nodes[q].type})

\* C24: the node ids of a returned graph are pairwise distinct, the list
\* starts with the one start node and ends with the one end node, and every
\* other id is the prefix of the node's kind and the kind's emission counter.
NodeIdentity ==
    result.called /\ result.success =>
        LET nodes == result.nodes
        IN  /\ \A p \in 1..Len(nodes) :
                  \A q \in 1..Len(nodes) : p # q => nodes[p].id # nodes[q].id
            /\ Len(nodes) >= 2
            /\ nodes[1].id = "start" /\ nodes[1].type = "start"
            /\ nodes[Len(nodes)].id = "end" /\ nodes[Len(nodes)].type = "end"
            /\ \A q \in 2..(Len(nodes) - 1) :
                  /\ nodes[q].type \notin {"start", "end"}
                  /\ nodes[q].id = NodeId(PrefixOf(nodes[q].type),
                                          EmittedBefore(nodes, q))

\* three activities, one from each loop of parseActivities, next to a step
\* of another kind with the same counter value
NodeIdentityWitness ==
    /\ result.called /\ result.success
    /\ \E p \in 1..Len(result.nodes) :
          result.nodes[p].id = "activity-2" /\ result.nodes[p].name = "S"
    /\ \E p \in 1..Len(result.nodes) :
          result.nodes[p].id = "activity-0" /\ result.nodes[p].isParallelTask

DataEdgeTypes == {"data_workflow_input", "data_activity_output", "data_event"}

\* what a data edge says: where it starts and ends, its kind and its path
Wire(source, target, type, dataFlow) ==
    [source |-> source, target |-> target, type |-> type, dataFlow |-> dataFlow]

WireOfEdge(e) == Wire(e.source, e.target, e.type, e.dataFlow)

WireOfSource(node, d) ==
    CASE d.sourceType = "workflow_input" ->
             Wire("start", node.id, "data_workflow_input", d.sourcePath)
      [] d.sourceType = "activity_output" ->
             Wire(d.sourceActivityId, node.id, "data_activity_output", d.sourcePath)
      [] OTHER -> Wire(node.id, node.id, "data_event", d.sourcePath)

NonLiteral(node) ==
    SelectSeq(node.dataSources, LAMBDA d : d.sourceType # "literal")

RECURSIVE ExpectedWires(_, _)
ExpectedWires(nodes, p) ==
    IF p > Len(nodes) THEN <<>>
    ELSE [k \in 1..Len(NonLiteral(nodes[p])) |->
             WireOfSource(nodes[p], NonLiteral(nodes[p])[k])]
         \o ExpectedWires(nodes, p + 1)

DataWires(edges) ==
    LET data == SelectSeq(edges, LAMBDA e : e.type \in DataEdgeTypes)
    IN  [k \in 1..Len(data) |-> WireOfEdge(data[k])]

SourceTypes(nodes) ==
    UNION {{nodes[p].dataSources[k].sourceType :
               k \in 1..Len(nodes[p].dataSources)} : p \in 1..Len(nodes)}

\* C22: the data edges of a returned graph are, one for one and in order, the
\* non-literal data sources of its nodes: a workflow-input source an edge from
\* start to the node, a step-output source an edge from its producer to the
\* node, an event-data source a self-loop; every other edge is a control edge.
DataEdgeDerivation ==
    result.called /\ result.success =>
        /\ DataWires(result.edges) = ExpectedWires(result.nodes, 1)
        /\ \A k \in 1..Len(result.edges) :
              result.edges[k].type \in DataEdgeTypes \cup {"default", "parallel"}

\* a graph with sources of all four kinds
DataEdgeDerivationWitness ==
    /\ result.called /\ result.success
    /\ SourceTypes(result.nodes) =
           {"workflow_input", "activity_output", "event_data", "literal"}

\* C28: the edge ids of a returned graph are pairwise distinct.
EdgeIdentity ==
    result.called /\ result.success =>
        \A p \in 1..Len(result.edges) :
            \A q \in 1..Len(result.edges) :
                p # q => result.edges[p].id # result.edges[q].id

\* C29: the source and the target of every data edge of a returned graph are
\* ids of nodes of the graph.
DataEdgeWellFormed ==
    result.called /\ result.success =>
        \A k \in 1..Len(result.edges) :
            result.edges[k].type \in DataEdgeTypes =>
                /\ result.edges[k].source \in NodeIds(result.nodes)
                /\ result.edges[k].target \in NodeIds(result.nodes)

\* a step-output edge into a decision from the timer its condition names,
\* next to a workflow-input edge from start
DataEdgeWellFormedWitness ==
    /\ result.called /\ result.success
    /\ \E k \in 1..Len(result.edges) :
          /\ result.edges[k].type = "data_activity_output"
          /\ result.edges[k].source = "timer-0"
          /\ result.edges[k].target = "decision-0"
    /\ \E k \in 1..Len(result.edges) :
          /\ result.edges[k].type = "data_workflow_input"
          /\ result.edges[k].source = "start"

\* line i of the scoped text assigns a call to a task variable that no
\* fan-in list of the scoped text names
IsOrphan(sourceCode, i) ==
    /\ sourceCode[i].k = "task"
    /\ \A j \in 1..Len(sourceCode) :
          sourceCode[j].k = "join" =>
              \A t \in 1..Len(sourceCode[j].tasks) :
                  sourceCode[j].tasks[t] # sourceCode[i].out

OrphanLines(sourceCode, target) ==
    LET scope == SelectScope(sourceCode, target)
    IN  {i \in 1..Len(sourceCode) :
            /\ i - scope.lineOffset \in 1..Len(scope.code)
            /\ IsOrphan(scope.code, i - scope.lineOffset)}

\* the document with every orphaned task written as an awaited call
Sequentialized(sourceCode, target) ==
    [i \in 1..Len(sourceCode) |->
        IF i \in OrphanLines(sourceCode, target)
        THEN ActStmt(sourceCode[i].name, sourceCode[i].out, sourceCode[i].in)
        ELSE sourceCode[i]]

\* a node id as the line of its node, ids differing with the recognizer
LineOf(nodes, id) ==
    IF id \in {"start", "end"} THEN id
    ELSE ToString((CHOOSE n \in NodeSet(nodes) : n.id = id).lineNumber)

ControlByLine(nodes, edges) ==
    LET control == ControlEdges(edges)
    IN  [k \in 1..Len(control) |->
            <<LineOf(nodes, control[k].source), LineOf(nodes, control[k].target),
              control[k].type>>]

OrphanNodes ==
    {n \in NodeSet(result.nodes) :
        n.isParallelTask /\ n.lineNumber \in OrphanLines(parsed.source, parsed.target)}

Successors(control, S) ==
    {control[k].target : k \in {q \in 1..Len(control) : control[q].source \in S}}

\* the ids on a control-edge path of at most n edges from an id of S
RECURSIVE Within(_, _, _)
Within(control, S, n) ==
    IF n = 0 THEN S
    ELSE Within(control, S \cup Successors(control, S), n - 1)

ReachableFrom(nodes, control, id) == Within(control, {id}, Len(nodes))

\* C26: every node of a returned graph other than start has an incoming
\* control edge and is reachable from start, and every node other than end has
\* an outgoing control edge and reaches end.
ControlFlowConnectivity ==
    result.called /\ result.success =>
        LET control == ControlEdges(result.edges)
        IN  \A n \in NodeSet(result.nodes) :
                /\ n.id # "start" =>
                      /\ \E k \in 1..Len(control) : control[k].target = n.id
                      /\ n.id \in ReachableFrom(result.nodes, control, "start")
                /\ n.id # "end" =>
                      /\ \E k \in 1..Len(control) : control[k].source = n.id
                      /\ "end" \in ReachableFrom(result.nodes, control, n.id)

\* C27: no control-edge path of a returned graph leads from a node back to
\* the node.
ControlFlowAcyclicity ==
    result.called /\ result.success =>
        LET control == ControlEdges(result.edges)
        IN  \A n \in NodeSet(result.nodes) :
                n.id \notin Within(control, Successors(control, {n.id}),
                                   Len(result.nodes))

\* C30: the graph the registry returns for a supported file carries the
\* language getLanguage reports for the file.
LanguageTag ==
    result.called /\ result.success /\ Supported(parsed.file) =>
        result.language = GetLanguage(parsed.file)

====
